---- MODULE Spec2Model ----
(***************************************************************************)
(* A model of the GitLab MCP server of gitlab-merge-code-review            *)
(* (src/gitlab-merge-code-review/src/index.ts): the configuration computed *)
(* at module load, the HTTP wrapper makeGitLabRequest with its shared      *)
(* lastGitLabError slot, resolveProjectId, and the two tool handlers.      *)
(*                                                                         *)
(* Strings are sequences of fragments: text that the code inspects         *)
(* (environment values, tool arguments) is held one character per element, *)
(* literal text of the source that is only concatenated is held as one     *)
(* element.  Numbers are held as canonical decimal digit sequences, so     *)
(* that values beyond the range of TLC's integers keep their digits.       *)
(*                                                                         *)
(* A handler is an async function: it runs without interruption up to an   *)
(* await and is resumed later, as a job of the microtask queue, which runs *)
(* its jobs first in, first out, and is empty before the next event from   *)
(* outside (a request arriving, a fetch settling, a body read) is taken.   *)
(* The server starts a handler for each request it reads, so a second      *)
(* invocation may start while the first is suspended, and the requests     *)
(* read in one chunk of input start in the same run of the queue.          *)
(***************************************************************************)
EXTENDS Naturals, Sequences, FiniteSets

VARIABLES
    RAW_GITLAB_URL,      \* process.env.GITLAB_URL || ''
    RAW_GITLAB_API_BASE, \* process.env.GITLAB_API_BASE || ''
    GITLAB_API_BASE,     \* the effective API base
    GITLAB_TOKEN,        \* process.env.GITLAB_TOKEN || ''
    lastGitLabError,     \* the shared last-error slot
    pending,             \* the fetches issued and not yet settled
    queue,               \* the microtask queue: the invocations with a job to run
    inv                  \* the tool invocations, by slot

vars == <<RAW_GITLAB_URL, RAW_GITLAB_API_BASE, GITLAB_API_BASE, GITLAB_TOKEN,
          lastGitLabError, pending, queue, inv>>

(***************************************************************************)
(* Bounds of the model.                                                    *)
(***************************************************************************)
\* how many invocations may be in progress at once
MaxInv == 2

Inv == 1..MaxInv

(***************************************************************************)
(* Characters and numbers.                                                 *)
(***************************************************************************)
DigitChars == <<"0", "1", "2", "3", "4", "5", "6", "7", "8", "9">>

Digits == {DigitChars[k] : k \in 1..10}

DigitVal(c) == (CHOOSE k \in 1..10 : DigitChars[k] = c) - 1

\* /^\d+$/.test(s)
IsAllDigits(s) == Len(s) > 0 /\ \A k \in 1..Len(s) : s[k] \in Digits

RECURSIVE StripLeadingZeros(_)
StripLeadingZeros(s) ==
    IF Len(s) > 1 /\ s[1] = "0" THEN StripLeadingZeros(Tail(s)) ELSE s

\* the integer an all-digit string denotes, as a canonical digit sequence
IntegerValue(s) == StripLeadingZeros(s)

RECURSIVE LexLess(_, _)
LexLess(a, b) ==
    IF a = <<>> THEN FALSE
    ELSE IF a[1] # b[1] THEN DigitVal(a[1]) < DigitVal(b[1])
    ELSE LexLess(Tail(a), Tail(b))

\* a < b on canonical digit sequences
NumLess(a, b) == Len(a) < Len(b) \/ (Len(a) = Len(b) /\ LexLess(a, b))

NumLeq(a, b) == a = b \/ NumLess(a, b)

\* n mod 4, from the last two digits
Mod4(a) ==
    LET n == Len(a)
        lo == DigitVal(a[n])
        hi == IF n > 1 THEN DigitVal(a[n - 1]) ELSE 0
    IN  (10 * hi + lo) % 4

IsOdd(a) == DigitVal(a[Len(a)]) % 2 = 1

RECURSIVE NumInc(_)
NumInc(a) ==
    IF a = <<>> THEN <<"1">>
    ELSE LET n == Len(a) IN
         IF a[n] = "9" THEN Append(NumInc(SubSeq(a, 1, n - 1)), "0")
         ELSE Append(SubSeq(a, 1, n - 1), DigitChars[DigitVal(a[n]) + 2])

\* n - 1 for an odd n (no borrow)
OddDec(a) ==
    LET n == Len(a) IN Append(SubSeq(a, 1, n - 1), DigitChars[DigitVal(a[n])])

\* 2^53: from here to 2^54 a double holds the even integers only
Two53 == <<"9","0","0","7","1","9","9","2","5","4","7","4","0","9","9","2">>

\* Number(s) for an all-digit s below 2^54 (the identifiers of this model
\* are): exact up to 2^53, above it the nearest double, ties to the even
\* mantissa
ToNumber(s) ==
    LET n == StripLeadingZeros(s) IN
    IF NumLeq(n, Two53) \/ ~IsOdd(n) THEN n
    ELSE IF Mod4(OddDec(n)) = 0 THEN OddDec(n)
    ELSE NumInc(n)

(***************************************************************************)
(* encodeURIComponent.  HS and LS stand for the two halves of a surrogate  *)
(* pair (U+D83D, U+DE00); either one alone makes the call throw URIError.  *)
(***************************************************************************)
HS == "\\uD83D"

LS == "\\uDE00"

Letters == {"a", "b", "g", "p", "h", "t", "s", "H", "T", "P", "S"}

Unreserved == Digits \cup Letters \cup {"-", "_", ".", "!", "~", "*", "'", "(", ")"}

PercentCode(c) ==
    CASE c = "/" -> <<"%", "2", "F">>
      [] c = " " -> <<"%", "2", "0">>
      [] c = ":" -> <<"%", "3", "A">>

SurrogatePairCode == <<"%", "F", "0", "%", "9", "F", "%", "9", "8", "%", "8", "0">>

\* whether encodeURIComponent(s) throws: a lone surrogate
RECURSIVE HasLoneSurrogate(_)
HasLoneSurrogate(s) ==
    IF s = <<>> THEN FALSE
    ELSE IF s[1] = HS
         THEN IF Len(s) > 1 /\ s[2] = LS THEN HasLoneSurrogate(SubSeq(s, 3, Len(s)))
              ELSE TRUE
    ELSE IF s[1] = LS THEN TRUE
    ELSE HasLoneSurrogate(Tail(s))

RECURSIVE encodeURIComponent(_)
encodeURIComponent(s) ==
    IF s = <<>> THEN <<>>
    ELSE IF s[1] = HS THEN SurrogatePairCode \o encodeURIComponent(SubSeq(s, 3, Len(s)))
    ELSE IF s[1] \in Unreserved THEN <<s[1]>> \o encodeURIComponent(Tail(s))
    ELSE PercentCode(s[1]) \o encodeURIComponent(Tail(s))

(***************************************************************************)
(* Configuration (index.ts lines 6-22).                                    *)
(***************************************************************************)
Lower(c) ==
    CASE c = "H" -> "h" [] c = "T" -> "t" [] c = "P" -> "p" [] c = "S" -> "s"
      [] OTHER -> c

LowerStr(s) == [k \in 1..Len(s) |-> Lower(s[k])]

HttpScheme == <<"h", "t", "t", "p", ":", "/", "/">>

HttpsScheme == <<"h", "t", "t", "p", "s", ":", "/", "/">>

StartsWith(s, p) == Len(s) >= Len(p) /\ SubSeq(s, 1, Len(p)) = p

EndsWith(s, p) == Len(s) >= Len(p) /\ SubSeq(s, Len(s) - Len(p) + 1, Len(s)) = p

\* /^https?:\/\//i.test(url)
HasScheme(url) ==
    StartsWith(LowerStr(url), HttpScheme) \/ StartsWith(LowerStr(url), HttpsScheme)

withScheme(url) == IF HasScheme(url) THEN url ELSE HttpsScheme \o url

\* a replace without the + of /\/+$/: one trailing slash only
stripTrailingSlash_Once(url) ==
    IF url # <<>> /\ url[Len(url)] = "/" THEN SubSeq(url, 1, Len(url) - 1) ELSE url

RECURSIVE stripTrailingSlash(_)
stripTrailingSlash(url) ==
    IF url # <<>> /\ url[Len(url)] = "/"
    THEN stripTrailingSlash(SubSeq(url, 1, Len(url) - 1))
    ELSE url

ApiPath == <<"/", "a", "p", "i", "/", "v", "4">>

DefaultApiBase == HttpsScheme \o <<"183.99.50.117">> \o ApiPath

ApiBase(rawUrl, rawBase) ==
    IF rawBase # <<>> THEN stripTrailingSlash(rawBase)
    ELSE IF rawUrl # <<>> THEN stripTrailingSlash(withScheme(rawUrl)) \o ApiPath
    ELSE DefaultApiBase

(***************************************************************************)
(* Values.  A JSON body is held by what the handlers look at: whether it   *)
(* is null, a scalar (truthy or not), an array, or an object with its id   *)
(* and changes fields.  An array is "empty", "good" (every element has     *)
(* the fields the mapping callback dereferences) or "bad" (an element on   *)
(* which the callback throws a TypeError, such as null).                   *)
(***************************************************************************)
Null == [t |-> "null", truthy |-> FALSE, id |-> <<>>, changes |-> "absent", items |-> "none"]

JScalar(b) == [t |-> "scalar", truthy |-> b, id |-> <<>>, changes |-> "absent", items |-> "none"]

\* id: <<>> when the object has no id, else a number
\* changes: "absent", "scalar" (truthy, not an array), or an array's items
JObject(idv, ch) == [t |-> "object", truthy |-> TRUE, id |-> idv, changes |-> ch, items |-> "none"]

JArray(it) == [t |-> "array", truthy |-> TRUE, id |-> <<>>, changes |-> "absent", items |-> it]

\* a number, as makeGitLabRequest's callers hold one (resolveProjectId's result)
Num(d) == [t |-> "num", v |-> d]

NoNum == [t |-> "null", v |-> <<>>]

\* !v
Falsy(v) == ~v.truthy

\* !n for a number or null
FalsyNum(n) == n.t = "null" \/ n.v = <<"0">>

\* the bodies a 2xx response of each endpoint is drawn from
UserBodies == {Null, JScalar(FALSE), JObject(<<"7">>, "absent"), JObject(<<>>, "absent")}

MergeRequestBodies ==
    {Null, JObject(<<>>, "absent"), JArray("empty"), JArray("good"), JArray("bad")}

ProjectBodies ==
    {Null, JScalar(TRUE), JObject(<<>>, "absent"), JObject(<<"0">>, "absent"),
     JObject(<<"7">>, "absent")}

ChangesBodies ==
    {Null, JArray("good"), JObject(<<>>, "absent"), JObject(<<>>, "scalar"),
     JObject(<<>>, "empty"), JObject(<<>>, "good"), JObject(<<>>, "bad")}

BodiesOf(stage) ==
    CASE stage = "user" -> UserBodies
      [] stage = "mrs" -> MergeRequestBodies
      [] stage = "lookup" -> ProjectBodies
      [] stage = "changes" -> ChangesBodies

\* the statuses a response with !response.ok is drawn from
ErrorStatuses == {"404", "500"}

(***************************************************************************)
(* The values of lastGitLabError (index.ts lines 40, 42, 53, 61).          *)
(***************************************************************************)
NoError == [kind |-> "null", status |-> "", url |-> <<>>]

\* 'GITLAB_TOKEN is not set'
TokenNotSet == [kind |-> "token", status |-> "", url |-> <<>>]

\* `HTTP ${status} ${statusText} | URL: ${url} | Body: ${bodySnippet}`
HttpError(status, url) == [kind |-> "http", status |-> status, url |-> url]

\* `Fetch failed...: ${errMsg} | URL: ${url}`
FetchFailed(url) == [kind |-> "fetch", status |-> "", url |-> url]

\* '원인 미상', what a handler prints for an empty slot
Unknown == [kind |-> "unknown", status |-> "", url |-> <<>>]

\* lastGitLabError || '원인 미상'
Detail(slot) == IF slot = NoError THEN Unknown ELSE slot

(***************************************************************************)
(* Handler results.  A handler returns { content: [item] } or throws (its  *)
(* promise rejects).  A text is held as its message and what it embeds.    *)
(***************************************************************************)
Text(msg, detail, project, projectId, mr, items) ==
    [msg |-> msg, detail |-> detail, project |-> project, project_id |-> projectId,
     mr |-> mr, items |-> items]

\* a diagnostic: a fixed message followed by `세부: ${lastGitLabError || '원인 미상'}`
Diagnostic(msg, project) == Text(msg, Detail(lastGitLabError), project, NoNum, <<>>, "none")

Returned(text) == [kind |-> "returned", content |-> <<[type |-> "text", text |-> text]>>]

Thrown == [kind |-> "thrown", content |-> <<>>]

NoResult == [kind |-> "none", content |-> <<>>]

DiagnosticMsgs == {"authFailed", "mergeRequestsFailed", "projectNotFound", "changesFailed"}

(***************************************************************************)
(* One invocation of a tool: its arguments, where it is suspended, its     *)
(* locals, the endpoints it has passed to makeGitLabRequest, its result,   *)
(* and (history) what its latest call of makeGitLabRequest had left in the *)
(* slot when it returned.                                                  *)
(***************************************************************************)
Idle ==
    [tool |-> "none", project |-> <<>>, mr |-> <<>>, state |-> "", pc |-> "idle",
     stage |-> "", url |-> <<>>, status |-> "", ret |-> Null, wrote |-> NoError,
     currentUser |-> Null, projectId |-> NoNum, threw |-> FALSE, iid |-> <<>>,
     calls |-> <<>>, result |-> NoResult]

\* the arguments the invocations are drawn from
Projects == {<<"0">>, <<"7">>, <<"g", "/", "p">>}

Mrs == {<<"5">>, <<"!", "5">>}

States == {"opened", "merged"}

Tokens == {<<>>, <<"t", "o", "k">>}

\* the state after the module has loaded (lines 14-29)
Loaded(urls, bases) ==
    /\ RAW_GITLAB_URL \in urls
    /\ RAW_GITLAB_API_BASE \in bases
    /\ GITLAB_API_BASE = ApiBase(RAW_GITLAB_URL, RAW_GITLAB_API_BASE)
    /\ GITLAB_TOKEN \in Tokens
    /\ lastGitLabError = NoError
    /\ pending = {}
    /\ queue = <<>>
    /\ inv = [i \in Inv |-> Idle]

\* GITLAB_URL is not set; GITLAB_API_BASE is not set, or names a host only
Init == Loaded({<<>>}, {<<>>, <<"g">>})

Config == <<RAW_GITLAB_URL, RAW_GITLAB_API_BASE, GITLAB_API_BASE, GITLAB_TOKEN>>

(***************************************************************************)
(* Scheduling.                                                             *)
(***************************************************************************)
\* invocation i's job is the one the microtask queue runs next
Runs(i) == queue # <<>> /\ Head(queue) = i

\* the microtask queue is empty: the next event from outside is taken
Quiet == queue = <<>>

\* nothing but handlers about to start is queued: a further request of the
\* same chunk of input may be read
Reading == \A k \in 1..Len(queue) : inv[queue[k]].pc = "start"

(***************************************************************************)
(* makeGitLabRequest (index.ts lines 32-65).                               *)
(***************************************************************************)
\* fetch(url, ...) of line 46 returns a promise that is already rejected when
\* the URL does not parse: here, when it does not begin with its scheme
FetchRejectsAtOnce(url) ==
    ~(StartsWith(LowerStr(url), <<"h", "t", "t", "p", ":">>)
        \/ StartsWith(LowerStr(url), <<"h", "t", "t", "p", "s", ":">>))

\* lines 33-46, run by the caller up to the await of fetch: clear the slot,
\* then either give up for want of a token or issue the fetch.  q is the
\* microtask queue behind the caller's job
makeGitLabRequest(i, rec, stage, endpoint, q) ==
    LET url == GITLAB_API_BASE \o endpoint
        called == [rec EXCEPT !.stage = stage, !.url = url, !.wrote = NoError,
                              !.calls = Append(@, endpoint)]
    IN  /\ IF GITLAB_TOKEN = <<>>
           THEN /\ lastGitLabError' = TokenNotSet
                /\ pending' = pending
                /\ queue' = Append(q, i)
                /\ inv' = [inv EXCEPT ![i] = [called EXCEPT !.pc = "ret", !.ret = Null,
                                                             !.wrote = TokenNotSet]]
           ELSE IF FetchRejectsAtOnce(url)
           THEN /\ lastGitLabError' = NoError
                /\ pending' = pending
                /\ queue' = Append(q, i)
                /\ inv' = [inv EXCEPT ![i] = [called EXCEPT !.pc = "rejected"]]
           ELSE /\ lastGitLabError' = NoError
                /\ pending' = pending \cup {[id |-> i, url |-> url]}
                /\ queue' = q
                /\ inv' = [inv EXCEPT ![i] = [called EXCEPT !.pc = "fetch"]]
        /\ UNCHANGED Config

\* lines 57-64, as a job: the catch after a fetch that was rejected at once
CatchRejected(i) ==
    /\ Runs(i) /\ inv[i].pc = "rejected"
    /\ lastGitLabError' = FetchFailed(inv[i].url)
    /\ queue' = Append(Tail(queue), i)
    /\ inv' = [inv EXCEPT ![i].pc = "ret", ![i].ret = Null,
                          ![i].wrote = FetchFailed(inv[i].url)]
    /\ UNCHANGED <<Config, pending>>

\* the fetch of line 46 fails (network, TLS): the catch of lines 57-64
FetchRejects(i) ==
    /\ Quiet /\ inv[i].pc = "fetch"
    /\ [id |-> i, url |-> inv[i].url] \in pending
    /\ pending' = pending \ {[id |-> i, url |-> inv[i].url]}
    /\ lastGitLabError' = FetchFailed(inv[i].url)
    /\ queue' = <<i>>
    /\ inv' = [inv EXCEPT ![i].pc = "ret", ![i].ret = Null,
                          ![i].wrote = FetchFailed(inv[i].url)]
    /\ UNCHANGED Config

\* the fetch of line 46 is answered: not ok goes on to await response.text()
\* (line 50), ok to await response.json() (line 56)
FetchResponds(i) ==
    /\ Quiet /\ inv[i].pc = "fetch"
    /\ [id |-> i, url |-> inv[i].url] \in pending
    /\ pending' = pending \ {[id |-> i, url |-> inv[i].url]}
    /\ \E status \in ErrorStatuses \cup {"200"} :
          inv' = [inv EXCEPT ![i].pc = IF status = "200" THEN "json" ELSE "text",
                             ![i].status = status]
    /\ UNCHANGED <<Config, lastGitLabError, queue>>

\* lines 50-54: the body is read (or not: the inner catch), the error is recorded
ReadErrorBody(i) ==
    /\ Quiet /\ inv[i].pc = "text"
    /\ lastGitLabError' = HttpError(inv[i].status, inv[i].url)
    /\ queue' = <<i>>
    /\ inv' = [inv EXCEPT ![i].pc = "ret", ![i].ret = Null, ![i].status = "",
                          ![i].wrote = HttpError(inv[i].status, inv[i].url)]
    /\ UNCHANGED <<Config, pending>>

\* line 56: response.json() rejects, caught by lines 57-64
ParseFails(i) ==
    /\ Quiet /\ inv[i].pc = "json"
    /\ lastGitLabError' = FetchFailed(inv[i].url)
    /\ queue' = <<i>>
    /\ inv' = [inv EXCEPT ![i].pc = "ret", ![i].ret = Null, ![i].status = "",
                          ![i].wrote = FetchFailed(inv[i].url)]
    /\ UNCHANGED <<Config, pending>>

\* line 56: response.json() resolves and its value is returned
ParseSucceeds(i) ==
    /\ Quiet /\ inv[i].pc = "json"
    /\ \E body \in BodiesOf(inv[i].stage) :
          inv' = [inv EXCEPT ![i].pc = "ret", ![i].ret = body, ![i].status = ""]
    /\ queue' = <<i>>
    /\ UNCHANGED <<Config, pending, lastGitLabError>>

\* a handler ends: its promise settles with result
Finish(i, rec, result) ==
    /\ inv' = [inv EXCEPT ![i] = [rec EXCEPT !.pc = "done", !.result = result]]
    /\ queue' = Tail(queue)
    /\ UNCHANGED <<Config, pending, lastGitLabError>>

(***************************************************************************)
(* get-assigned-merge-requests (index.ts lines 184-241).                   *)
(***************************************************************************)
\* `${currentUser.id}`
IdText(user) == IF user.id = <<>> THEN <<"undefined">> ELSE user.id

\* line 201
MergeRequestsEndpoint(user, state) ==
    <<"/merge_requests?assignee_id=">> \o IdText(user) \o <<"&state=", state, "&scope=all">>

\* a request for the tool is read: the handler is about to start
ArriveAssigned(i, S) ==
    /\ Reading /\ inv[i].pc = "idle"
    /\ \E state \in S :
          inv' = [inv EXCEPT ![i] = [Idle EXCEPT !.tool = "assigned", !.state = state,
                                                  !.pc = "start"]]
    /\ queue' = Append(queue, i)
    /\ UNCHANGED <<Config, pending, lastGitLabError>>

\* lines 184-186: the handler starts and calls makeGitLabRequest('/user')
StartAssigned(i) ==
    /\ Runs(i) /\ inv[i].tool = "assigned" /\ inv[i].pc = "start"
    /\ makeGitLabRequest(i, inv[i], "user", <<"/user">>, Tail(queue))

\* the check of line 187 left out
UserMissing_Never(user) == FALSE

\* `!currentUser` of line 187
UserMissing(user) == Falsy(user)

\* lines 187-202: resumed with the user
AssignedGotUser(i) ==
    /\ Runs(i) /\ inv[i].tool = "assigned" /\ inv[i].pc = "ret" /\ inv[i].stage = "user"
    /\ LET rec == [inv[i] EXCEPT !.currentUser = inv[i].ret, !.ret = Null] IN
       IF UserMissing(inv[i].ret)
       THEN Finish(i, rec, Returned(Diagnostic("authFailed", <<>>)))
       ELSE makeGitLabRequest(i, rec, "mrs",
                              MergeRequestsEndpoint(inv[i].ret, inv[i].state), Tail(queue))

\* lines 204-240: resumed with the merge requests.  mergeRequests.map throws
\* unless the body is an array; formatMergeRequest throws on a bad element
AssignedGotMergeRequests(i) ==
    /\ Runs(i) /\ inv[i].tool = "assigned" /\ inv[i].pc = "ret" /\ inv[i].stage = "mrs"
    /\ LET mrs == inv[i].ret
           rec == [inv[i] EXCEPT !.ret = Null]
       IN  IF Falsy(mrs)
           THEN Finish(i, rec, Returned(Diagnostic("mergeRequestsFailed", <<>>)))
           ELSE IF mrs.t = "array" /\ mrs.items = "empty"
           THEN Finish(i, rec, Returned(Text("noMergeRequests", NoError, <<>>, NoNum, <<>>, "none")))
           ELSE IF mrs.t # "array" \/ mrs.items = "bad"
           THEN Finish(i, rec, Thrown)
           ELSE Finish(i, rec, Returned(Text("mergeRequests", NoError, <<>>, NoNum, <<>>, mrs.items)))

(***************************************************************************)
(* resolveProjectId (lines 156-165) and get-merge-request-changes          *)
(* (lines 259-318).                                                        *)
(***************************************************************************)
\* line 158
LooksNumeric(projectIdentifier) == IsAllDigits(projectIdentifier)

\* the identifier returned as it stands, without Number()
NumericProjectId_AsGiven(projectIdentifier) == Num(projectIdentifier)

\* line 159
NumericProjectId(projectIdentifier) == Num(ToNumber(projectIdentifier))

\* line 163's endpoint
ProjectEndpoint(projectIdentifier) ==
    <<"/projects/">> \o encodeURIComponent(projectIdentifier)

\* line 164: proj?.id ?? null
IdOrNull(proj) == IF proj.t = "object" /\ proj.id # <<>> THEN Num(proj.id) ELSE NoNum

\* the mr used as it stands, without the slice
NormalizeIid_Keep(mr) == mr

\* line 274
NormalizeIid(mr) == IF mr # <<>> /\ mr[1] = "!" THEN Tail(mr) ELSE mr

\* line 276
ChangesEndpoint(projectId, iid) ==
    <<"/projects/">> \o projectId.v \o <<"/merge_requests/">> \o iid \o <<"/changes">>

\* `!projectId` of line 261
ProjectMissing(projectId) == FalsyNum(projectId)

\* `!mrChanges || !mrChanges.changes` of line 278
ChangesMissing(mrChanges) == Falsy(mrChanges) \/ mrChanges.changes = "absent"

\* a request for the tool is read: the handler is about to start
ArriveChanges(i, P, M) ==
    /\ Reading /\ inv[i].pc = "idle"
    /\ \E project \in P, mr \in M :
          inv' = [inv EXCEPT ![i] = [Idle EXCEPT !.tool = "changes", !.project = project,
                                                  !.mr = mr, !.pc = "start"]]
    /\ queue' = Append(queue, i)
    /\ UNCHANGED <<Config, pending, lastGitLabError>>

\* lines 259-260 and 156-163: the handler starts and calls resolveProjectId,
\* which returns at once, throws out of encodeURIComponent, or looks the
\* project up
StartChanges(i) ==
    /\ Runs(i) /\ inv[i].tool = "changes" /\ inv[i].pc = "start"
    /\ LET project == inv[i].project IN
       IF LooksNumeric(project)
       THEN /\ inv' = [inv EXCEPT ![i].pc = "resolved",
                                  ![i].projectId = NumericProjectId(project)]
            /\ queue' = Append(Tail(queue), i)
            /\ UNCHANGED <<Config, pending, lastGitLabError>>
       ELSE IF HasLoneSurrogate(project)
       THEN /\ inv' = [inv EXCEPT ![i].pc = "resolved", ![i].threw = TRUE]
            /\ queue' = Append(Tail(queue), i)
            /\ UNCHANGED <<Config, pending, lastGitLabError>>
       ELSE makeGitLabRequest(i, inv[i], "lookup", ProjectEndpoint(project), Tail(queue))

\* line 164: resolveProjectId is resumed with the project and returns
ResolveGotProject(i) ==
    /\ Runs(i) /\ inv[i].tool = "changes" /\ inv[i].pc = "ret" /\ inv[i].stage = "lookup"
    /\ inv' = [inv EXCEPT ![i].pc = "resolved", ![i].projectId = IdOrNull(inv[i].ret)]
    /\ queue' = Append(Tail(queue), i)
    /\ UNCHANGED <<Config, pending, lastGitLabError>>

\* lines 261-277: the handler is resumed with resolveProjectId's outcome
ChangesGotProjectId(i) ==
    /\ Runs(i) /\ inv[i].tool = "changes" /\ inv[i].pc = "resolved"
    /\ IF inv[i].threw
       THEN Finish(i, inv[i], Thrown)
       ELSE IF ProjectMissing(inv[i].projectId)
       THEN Finish(i, inv[i], Returned(Diagnostic("projectNotFound", inv[i].project)))
       ELSE LET iid == NormalizeIid(inv[i].mr) IN
            makeGitLabRequest(i, [inv[i] EXCEPT !.iid = iid], "changes",
                              ChangesEndpoint(inv[i].projectId, iid), Tail(queue))

\* lines 278-317: resumed with the changes.  changes.map throws unless changes
\* is an array; the callback throws on a bad element
ChangesGotChanges(i) ==
    /\ Runs(i) /\ inv[i].tool = "changes" /\ inv[i].pc = "ret" /\ inv[i].stage = "changes"
    /\ LET mrChanges == inv[i].ret
           rec == [inv[i] EXCEPT !.ret = Null]
       IN  IF ChangesMissing(mrChanges)
           THEN Finish(i, rec, Returned(Diagnostic("changesFailed", <<>>)))
           ELSE IF mrChanges.changes \in {"scalar", "bad"}
           THEN Finish(i, rec, Thrown)
           ELSE Finish(i, rec, Returned(Text("changes", NoError, inv[i].project,
                                             inv[i].projectId, <<"!">> \o inv[i].iid,
                                             mrChanges.changes)))

\* the handler's result has been sent; the invocation is over
Return(i) ==
    /\ inv[i].pc = "done"
    /\ inv' = [inv EXCEPT ![i] = Idle]
    /\ UNCHANGED <<Config, pending, lastGitLabError, queue>>

Step(i, P, M, S) ==
    \/ ArriveAssigned(i, S)
    \/ ArriveChanges(i, P, M)
    \/ StartAssigned(i)
    \/ StartChanges(i)
    \/ CatchRejected(i)
    \/ FetchRejects(i)
    \/ FetchResponds(i)
    \/ ReadErrorBody(i)
    \/ ParseFails(i)
    \/ ParseSucceeds(i)
    \/ AssignedGotUser(i)
    \/ AssignedGotMergeRequests(i)
    \/ ResolveGotProject(i)
    \/ ChangesGotProjectId(i)
    \/ ChangesGotChanges(i)
    \/ Return(i)

Next == \E i \in Inv : Step(i, Projects, Mrs, States)

Spec == Init /\ [][Next]_vars

(***************************************************************************)
(* The same server taking one invocation at a time, over a wider range of  *)
(* environments and arguments.                                             *)
(***************************************************************************)
EnvUrls ==
    {<<>>, <<"g">>, <<"g", "/">>, <<"g", "/", "/">>, <<"/">>,
     <<"h", "t", "t", "p", ":", "/", "/", "g">>,
     <<"H", "T", "T", "P", "S", ":", "/", "/", "g", "/">>,
     <<"h", "t", "t", "p", "s", ":", "/", "/">>,
     <<"h", "t", "t", "p", ":", "/", "g">>}

EnvBases ==
    {<<>>, <<"g">>, <<"g", "/", "/">>, <<"/">>,
     <<"h", "t", "t", "p", ":", "/", "/", "g">>,
     <<"h", "t", "t", "p", "s", ":", "/", "/", "g", "/", "a", "p", "i", "/", "v", "4", "/">>}

ProjectsSeq ==
    {<<"0">>, <<"0", "0">>, <<"7">>, <<"0", "0", "7">>,
     Two53, NumInc(Two53), NumInc(NumInc(NumInc(Two53))),
     <<>>, <<"g", "/", "p">>, <<"a", " ", "b">>, <<"7", "a">>,
     <<HS>>, <<"g", LS>>, <<"g", HS, LS>>}

MrsSeq == {<<"5">>, <<"!", "5">>, <<>>, <<"!", "!", "5">>}

StatesSeq == {"opened", "closed", "merged", "all"}

InitSeq == Loaded(EnvUrls, EnvBases)

NextSeq == Step(1, ProjectsSeq, MrsSeq, StatesSeq)

SpecSeq == InitSeq /\ [][NextSeq]_vars

(***************************************************************************)
(* Properties.                                                             *)
(***************************************************************************)
Done(i) == inv[i].pc = "done"

ReturnedText(i) == Done(i) /\ inv[i].result.kind = "returned"

TextOf(i) == inv[i].result.content[1].text

IsDiagnostic(i) == ReturnedText(i) /\ TextOf(i).msg \in DiagnosticMsgs

OwnPending(i) == {p \in pending : p.id = i}

Last(seq) == seq[Len(seq)]

\* C1: with the token unset no fetch is ever issued and every finished
\* invocation has returned a diagnostic whose detail is "token is not set"
C1_TokenUnsetAlwaysDiagnosed ==
    GITLAB_TOKEN = <<>> =>
        /\ pending = {}
        /\ \A i \in Inv : Done(i) => IsDiagnostic(i) /\ TextOf(i).detail = TokenNotSet

\* C2: every finished invocation has returned exactly one text item; none
\* has thrown
C2_HandlersNeverThrow ==
    \A i \in Inv :
        Done(i) => /\ inv[i].result.kind = "returned"
                   /\ Len(inv[i].result.content) = 1
                   /\ inv[i].result.content[1].type = "text"

\* a step in which a call of makeGitLabRequest by i returns
CallReturns(i) ==
    inv'[i].pc = "ret" /\ (inv[i].pc # "ret" \/ inv'[i].stage # inv[i].stage)

\* a step in which i issues a fetch
FetchIssued(i) == OwnPending(i) = {} /\ [id |-> i, url |-> inv'[i].url] \in pending'

\* C3: the slot is null when a fetch is issued; when a call returns null the
\* slot holds a detail, and when it returns a payload the slot is null
C3_SlotTracksReturn ==
    [][\A i \in Inv :
          /\ FetchIssued(i) => lastGitLabError' = NoError
          /\ CallReturns(i) =>
                IF inv'[i].ret = Null THEN lastGitLabError' # NoError
                ELSE lastGitLabError' = NoError]_vars

\* i's call has returned null and i has yet to read the slot
AwaitingRead(i) ==
    \/ inv[i].pc = "ret" /\ inv[i].ret = Null
    \/ inv[i].pc = "resolved" /\ inv[i].stage = "lookup" /\ inv[i].projectId = NoNum

\* C4: between a call returning null and its invocation reading the slot, the
\* slot holds what that call left there, and so does the detail of the
\* diagnostic the invocation then returns
C4_ReadsOwnError ==
    \A i \in Inv :
        /\ AwaitingRead(i) => lastGitLabError = inv[i].wrote
        /\ IsDiagnostic(i) /\ inv[i].calls # <<>> => TextOf(i).detail = Detail(inv[i].wrote)

\* a step in which i, called with an all-digit project, leaves the start of
\* its handler: resolveProjectId has run
NumericResolved(i) ==
    /\ inv[i].tool = "changes" /\ inv[i].pc = "start" /\ inv'[i].pc # "start"
    /\ IsAllDigits(inv[i].project)

\* what C5 says of resolveProjectId beside its result: it returns, with no
\* call, no fetch, and the slot as it was
ResolvedLocally(i) ==
    /\ inv'[i].pc = "resolved" /\ ~inv'[i].threw
    /\ inv'[i].calls = <<>>
    /\ pending' = pending
    /\ lastGitLabError' = lastGitLabError

C6_OneLookup ==
    \A i \in Inv :
        inv[i].tool = "changes" /\ ~IsAllDigits(inv[i].project) /\ inv[i].pc = "resolved" =>
            /\ ~inv[i].threw
            /\ inv[i].calls = << <<"/projects/">> \o encodeURIComponent(inv[i].project) >>
            /\ inv[i].projectId =
                  IF inv[i].ret.t = "object" /\ inv[i].ret.id # <<>>
                  THEN Num(inv[i].ret.id) ELSE NoNum

\* i was called with '!' + s and j with s, for the same project
BangPair(i, j) ==
    /\ i # j
    /\ inv[i].tool = "changes" /\ inv[j].tool = "changes"
    /\ inv[i].project = inv[j].project
    /\ ~StartsWith(inv[j].mr, <<"!">>)
    /\ inv[i].mr = <<"!">> \o inv[j].mr

\* C7: of two invocations for the same project, one with mr = '!' + s and one
\* with mr = s, each asks for the changes of iid s and labels its result
\* '!' + s
C7_BangPrefixEquivalent ==
    \A i, j \in Inv :
        BangPair(i, j) =>
            \A k \in {i, j} :
                /\ inv[k].stage = "changes" =>
                      /\ inv[k].iid = inv[j].mr
                      /\ Last(inv[k].calls) =
                            <<"/projects/">> \o inv[k].projectId.v \o <<"/merge_requests/">>
                                \o inv[j].mr \o <<"/changes">>
                /\ ReturnedText(k) /\ TextOf(k).msg = "changes" =>
                      TextOf(k).mr = <<"!">> \o inv[j].mr

\* both invocations of such a pair have returned their changes, under one label
C7_Witness ==
    \E i, j \in Inv :
        /\ BangPair(i, j)
        /\ ReturnedText(i) /\ TextOf(i).msg = "changes"
        /\ ReturnedText(j) /\ TextOf(j).msg = "changes"
        /\ TextOf(i).mr = TextOf(j).mr
        /\ Last(inv[i].calls) = Last(inv[j].calls)

NoTrailingSlash(url) == url = <<>> \/ Last(url) # "/"

Slashes(k) == [j \in 1..k |-> "/"]

\* the host/URL names a host: something other than '/' follows its scheme, if any
NamesHost(url) ==
    LET l == LowerStr(url)
        rest == IF StartsWith(l, HttpsScheme) THEN SubSeq(url, 9, Len(url))
                ELSE IF StartsWith(l, HttpScheme) THEN SubSeq(url, 8, Len(url))
                ELSE url
    IN  \E k \in 1..Len(rest) : rest[k] # "/"

C9_AssignedCallsSequential ==
    \A i \in Inv :
        inv[i].tool = "assigned" =>
            /\ Len(inv[i].calls) <= 2
            /\ Cardinality(OwnPending(i)) <= 1
            /\ OwnPending(i) # {} => inv[i].pc = "fetch"
            /\ Len(inv[i].calls) >= 1 => inv[i].calls[1] = <<"/user">>
            /\ Len(inv[i].calls) = 2 =>
                  /\ inv[i].currentUser # Null
                  /\ inv[i].calls[2][1] = "/merge_requests?assignee_id="
            /\ Done(i) /\ inv[i].currentUser = Null =>
                  /\ Len(inv[i].calls) = 1
                  /\ IsDiagnostic(i) /\ TextOf(i).msg = "authFailed"

\* an invocation has listed merge requests after its two calls, one after the other
C9_Witness ==
    \E i \in Inv :
        /\ inv[i].tool = "assigned" /\ ReturnedText(i)
        /\ TextOf(i).msg = "mergeRequests"
        /\ Len(inv[i].calls) = 2

\* C10: "project not found" is returned only after a lookup of this
\* invocation came back without an id, and an invocation whose
\* resolveProjectId returned a number goes on to ask for the changes
C10_NotFoundOnlyAfterLookup ==
    \A i \in Inv :
        /\ ReturnedText(i) /\ TextOf(i).msg = "projectNotFound" =>
              inv[i].projectId = NoNum /\ inv[i].calls # <<>>
        /\ Done(i) /\ inv[i].tool = "changes" /\ inv[i].projectId.t = "num" =>
              inv[i].stage = "changes"

====
